---- MODULE Spec2Model ----
(***************************************************************************)
(* rs_string: a byte string with a small-buffer (SSO) representation and a *)
(* reference-counted copy-on-write heap representation (src/rs_string.h).  *)
(*                                                                         *)
(* An instance is the struct rs_string {len, off, p, cap, sso}.  The       *)
(* pointer p is modelled by `rep` and `blk`: rep = "sso" when p == sso,    *)
(* rep = "heap" when p points at the bytes of heap block blk, and          *)
(* rep = "stale" when p holds the address of the sso buffer of a struct    *)
(* whose lifetime has ended (the by-value return of rs_string_from_val).   *)
(* Buffers hold content bytes 1..NByte followed by NUL (0); the bytes      *)
(* after the terminator are not part of the state.                         *)
(***************************************************************************)
EXTENDS Integers, Sequences, FiniteSets, TLC

\* -DRS_SSO_CAP=1: the inline capacity T (src/rs_string.h:43-45, default 22)
RS_SSO_CAP == 1
\* number of rs_string variables of the client program
NInst == 2
\* number of heap blocks the allocator can hand out at one time
NBlk == 3
\* content bytes are 1..NByte (0 is the terminator)
NByte == 2
\* longest content an operation is asked to build
MaxLen == 2
\* largest refcount a block is driven to
MaxRc == 3
\* width of size_t in bits
SizeBits == 4

\* size_t arithmetic is modulo SizeMod
SizeMod == 2 ^ SizeBits

Inst == 1..NInst
Blk == 1..NBlk
Byte == 1..NByte

RECURSIVE StrUpTo(_)
StrUpTo(n) ==
    IF n = 0 THEN {<<>>}
    ELSE LET S == StrUpTo(n - 1)
         IN S \cup {Append(s, b) : s \in {t \in S : Len(t) = n - 1}, b \in Byte}

Vals == StrUpTo(MaxLen)

VARIABLES
    inst,   \* inst[i]: the struct rs_string of client variable i
    heap,   \* heap[b]: header {cap, rc} and bytes of heap block b
    fault,  \* "none", or the undefined behaviour the program ran into
    ra,     \* the rs_string_replace_all call in progress (its loop variables)
    sp,     \* the rs_sv_split calls in progress (loop variables, tokens delivered)
    lc,     \* the call the test client made last: what it asked, what it got back
    rd,     \* the find, erase or substr call given an index from the whole range
    th      \* the two threads that hold one heap block: where each one stands

vars == <<inst, heap, fault, ra, sp, lc, rd, th>>

FreeBlk == [st |-> "free", cap |-> 0, rc |-> 0, bytes |-> <<>>]

\* rs_string_init
InitInst == [len |-> 0, rep |-> "sso", blk |-> 0, cap |-> RS_SSO_CAP, sso |-> <<>>]

(***************************************************************************)
(* Helpers of the struct                                                   *)
(***************************************************************************)
rs_string_is_heap(x) == x.rep # "sso"

rs_string_cap(x) == IF rs_string_is_heap(x) THEN x.cap ELSE RS_SSO_CAP

\* what dereferencing x.p (or its header) does: "none" when the access is valid
Deref(w, x) ==
    IF x.rep = "stale" THEN "dangling"
    ELSE IF w.heap[x.blk].st # "live" THEN "use_after_free"
    ELSE "none"

\* F(x), with x evaluated once
With(x, F(_)) == CHOOSE y \in {F(u) : u \in {x}} : TRUE

Fail(w, f) == [w EXCEPT !.fault = f, !.ret = -1]
Ret(w, r) == [w EXCEPT !.ret = r]

(***************************************************************************)
(* Buffers: a buffer of capacity cap is cap + 1 bytes                      *)
(***************************************************************************)
Pad(c, size) == [k \in 1..size |-> IF k <= Len(c) THEN c[k] ELSE 0]

\* the bytes rs_string_cstr(s) .. rs_string_cstr(s) + len
Content(w, s) ==
    LET x == w.inst[s]
    IN IF x.rep = "sso" THEN Pad(x.sso, x.len)
       ELSE IF x.rep = "heap" THEN Pad(w.heap[x.blk].bytes, x.len)
       ELSE <<>>

\* memcpy(buf + dst, src, n)
MemCpy(buf, dst, src, n) ==
    [k \in 1..Len(buf) |-> IF k > dst /\ k <= dst + n THEN src[k - dst] ELSE buf[k]]

\* memmove(buf + dst, buf + from, n)
MemMove(buf, dst, from, n) ==
    [k \in 1..Len(buf) |-> IF k > dst /\ k <= dst + n THEN buf[k - dst + from] ELSE buf[k]]

\* buf[idx] = b
SetByte(buf, idx, b) == [buf EXCEPT ![idx + 1] = b]

\* the buffer p of instance x, cap + 1 bytes
BufOf(w, x) ==
    IF x.rep = "sso" THEN Pad(x.sso, RS_SSO_CAP + 1)
    ELSE IF x.rep = "heap" THEN Pad(w.heap[x.blk].bytes, w.heap[x.blk].cap + 1)
    ELSE <<>>

\* a heap instance whose content fits the inline buffer again is moved back to it
StoreBuf_mut(w, s, buf, n) ==
    LET x == w.inst[s]
    IN IF x.rep = "sso"
       THEN [w EXCEPT !.inst[s].sso = SubSeq(buf, 1, n), !.inst[s].len = n]
       ELSE IF n <= RS_SSO_CAP
       THEN [w EXCEPT !.inst[s] = [len |-> n, rep |-> "sso", blk |-> 0,
                                   cap |-> RS_SSO_CAP, sso |-> SubSeq(buf, 1, n)]]
       ELSE [w EXCEPT !.heap[x.blk].bytes = SubSeq(buf, 1, n), !.inst[s].len = n]

\* store buffer buf back as the buffer of instance s, whose length is now n
StoreBuf(w, s, buf, n) ==
    LET x == w.inst[s]
    IN IF x.rep = "sso"
       THEN [w EXCEPT !.inst[s].sso = SubSeq(buf, 1, n), !.inst[s].len = n]
       ELSE [w EXCEPT !.heap[x.blk].bytes = SubSeq(buf, 1, n), !.inst[s].len = n]

(***************************************************************************)
(* Allocator.  What the next calls answer is given by the oracle w.orc:    *)
(* orc.m for the a.m calls (TRUE: a block, FALSE: NULL) and orc.r for the  *)
(* a.r calls; past the end of the oracle a call succeeds.                  *)
(***************************************************************************)
MallocOk(w) == IF w.orc.m = <<>> THEN TRUE ELSE Head(w.orc.m)
PopM(w) == IF w.orc.m = <<>> THEN w ELSE [w EXCEPT !.orc.m = Tail(w.orc.m)]
ReallocOutcome(w) == IF w.orc.r = <<>> THEN "ok" ELSE Head(w.orc.r)
PopR(w) == IF w.orc.r = <<>> THEN w ELSE [w EXCEPT !.orc.r = Tail(w.orc.r)]
\* the addresses the allocator can hand out: never allocated, or freed and held
\* by no variable any more
FreeIds(w) == {b \in Blk : \/ w.heap[b].st = "free"
                           \/ /\ w.heap[b].st = "dead"
                              /\ \A i \in Inst : ~(w.inst[i].rep = "heap" /\ w.inst[i].blk = b)}
LeastFree(w) == CHOOSE b \in FreeIds(w) : \A c \in FreeIds(w) : b <= c

\* a.m(size): w.new is the block obtained, 0 for NULL; header and bytes uninitialised
rs__sys_malloc(w) ==
    IF ~MallocOk(w) \/ FreeIds(w) = {}
    THEN [PopM(w) EXCEPT !.new = 0, !.fails = @ + 1]
    ELSE LET b == LeastFree(w)
         IN [PopM(w) EXCEPT !.new = b, !.heap[b] = [FreeBlk EXCEPT !.st = "live"]]

\* a.f(h)
rs__sys_free(w, b) ==
    IF w.heap[b].st # "live" THEN Fail(w, "double_free")
    ELSE [w EXCEPT !.heap[b].st = "dead"]

\* a.r(h, size): NULL and the block untouched, or the block grown in place,
\* or the block moved to a new address and the old one freed
rs__sys_realloc(w, b) ==
    IF w.heap[b].st # "live" THEN Fail(w, "use_after_free")
    ELSE IF ReallocOutcome(w) = "fail" THEN [PopR(w) EXCEPT !.new = 0, !.fails = @ + 1]
    ELSE IF ReallocOutcome(w) = "ok" \/ FreeIds(w) = {} THEN [PopR(w) EXCEPT !.new = b]
    ELSE LET c == LeastFree(w)
         IN [PopR(w) EXCEPT !.new = c, !.heap[c] = w.heap[b], !.heap[b].st = "dead"]

(***************************************************************************)
(* Init/Free and the COW helpers.  A call chain threads the world w: each  *)
(* intermediate world is bound once with With.                             *)
(***************************************************************************)
\* rs__rc_dec on the header, then free at zero
rs__free_heap(w, s) ==
    LET x == w.inst[s]
    IN IF ~rs_string_is_heap(x) THEN w
       ELSE IF Deref(w, x) # "none" THEN Fail(w, Deref(w, x))
       ELSE IF w.heap[x.blk].rc - 1 = 0
       THEN rs__sys_free([w EXCEPT !.heap[x.blk].rc = @ - 1], x.blk)
       ELSE [w EXCEPT !.heap[x.blk].rc = @ - 1]

rs_string_free(w, s) ==
    IF ~rs_string_is_heap(w.inst[s]) THEN [w EXCEPT !.inst[s] = InitInst]
    ELSE With(rs__free_heap(w, s), LAMBDA w1 :
            IF w1.fault # "none" THEN w1 ELSE [w1 EXCEPT !.inst[s] = InitInst])

rs__retain(w, s) ==
    LET x == w.inst[s]
    IN IF ~rs_string_is_heap(x) \/ w.fault # "none" THEN w
       ELSE IF Deref(w, x) # "none" THEN Fail(w, Deref(w, x))
       ELSE [w EXCEPT !.heap[x.blk].rc = @ + 1]

\* the branch of rs_string_share on rs_string_is_heap(src)
ShareCopy(w, dst, src) ==
    LET y == w.inst[src]
    IN IF rs_string_is_heap(y)
       THEN rs__retain([w EXCEPT !.inst[dst] = y], dst)
       ELSE [w EXCEPT !.inst[dst] =
                [len |-> y.len, rep |-> "sso", blk |-> 0, cap |-> RS_SSO_CAP,
                 sso |-> SubSeq(Pad(y.sso, RS_SSO_CAP + 1), 1, y.len)]]

rs_string_share(w, dst, src) ==
    IF dst = src THEN w
    ELSE With(rs_string_free(w, dst), LAMBDA w1 :
           IF w1.fault # "none" THEN w1
           ELSE With(ShareCopy(w1, dst, src), LAMBDA w2 :
                  IF w2.fault # "none" THEN w2
                  ELSE IF rs_string_is_heap(w2.inst[dst]) THEN rs__retain(w2, dst)
                  ELSE w2))

\* the clone of rs__ensure_unique once a.m has answered (w1.new)
Clone(w1, s) ==
    LET x == w1.inst[s]
        h == w1.heap[x.blk]
        cap == h.cap
        nh == w1.new
    IN IF nh = 0 THEN Ret(w1, -1)
       ELSE IF x.len + 1 > cap + 1 THEN Fail(w1, "overflow")
       ELSE Ret([w1 EXCEPT
                   !.heap[nh] = [st |-> "live", cap |-> cap, rc |-> 1,
                                 bytes |-> SubSeq(Pad(h.bytes, h.cap + 1), 1, x.len)],
                   !.heap[x.blk].rc = @ - 1,
                   !.inst[s].blk = nh,
                   !.inst[s].cap = cap], 0)

\* the block is written in place although others hold it
rs__ensure_unique_mut(w, s) ==
    LET x == w.inst[s]
    IN IF w.fault # "none" THEN w
       ELSE IF ~rs_string_is_heap(x) THEN Ret(w, 0)
       ELSE IF Deref(w, x) # "none" THEN Fail(w, Deref(w, x))
       ELSE Ret(w, 0)

rs__ensure_unique(w, s) ==
    LET x == w.inst[s]
    IN IF w.fault # "none" THEN w
       ELSE IF ~rs_string_is_heap(x) THEN Ret(w, 0)
       ELSE IF Deref(w, x) # "none" THEN Fail(w, Deref(w, x))
       ELSE IF w.heap[x.blk].rc = 1 THEN Ret(w, 0)
       ELSE With(rs__sys_malloc(w), LAMBDA w1 : Clone(w1, s))

(***************************************************************************)
(* Reserve                                                                 *)
(***************************************************************************)
\* the geometric step alone, need not taken into account
GrowCap_mut(cap, need) == cap + cap \div 2 + 1

GrowCap(cap, need) ==
    LET ncap == cap + cap \div 2 + 1
    IN IF ncap < need THEN need ELSE ncap

\* s->cap set to the new capacity before the answer of a.r is looked at
GrowHeap_mut(w2, s, ncap) ==
    LET nh == w2.new
    IN IF w2.fault # "none" THEN w2
       ELSE IF nh = 0 THEN Ret([w2 EXCEPT !.inst[s].cap = ncap], -1)
       ELSE Ret([w2 EXCEPT !.heap[nh].cap = ncap,
                           !.inst[s].blk = nh,
                           !.inst[s].cap = ncap], 0)

\* the heap branch of rs_string_reserve_ex once a.r has answered
GrowHeap(w2, s, ncap) ==
    LET nh == w2.new
    IN IF w2.fault # "none" THEN w2
       ELSE IF nh = 0 THEN Ret(w2, -1)
       ELSE Ret([w2 EXCEPT !.heap[nh].cap = ncap,
                           !.inst[s].blk = nh,
                           !.inst[s].cap = ncap], 0)

\* the inline branch of rs_string_reserve_ex once a.m has answered
Promote(w2, s, ncap) ==
    LET nh == w2.new
        x == w2.inst[s]
    IN IF nh = 0 THEN Ret(w2, -1)
       ELSE IF x.len + 1 > ncap + 1 THEN Fail(w2, "overflow")
       ELSE Ret([w2 EXCEPT
                   !.heap[nh] = [st |-> "live", cap |-> ncap, rc |-> 1,
                                 bytes |-> SubSeq(Pad(x.sso, RS_SSO_CAP + 1), 1, x.len)],
                   !.inst[s] = [x EXCEPT !.rep = "heap", !.blk = nh,
                                         !.cap = ncap, !.sso = <<>>]], 0)

\* rs_string_reserve_ex after rs__ensure_unique returned world w1
Grow(w1, s, ncap) ==
    IF w1.fault # "none" THEN w1
    ELSE IF w1.ret # 0 THEN Ret(w1, -1)
    ELSE IF rs_string_is_heap(w1.inst[s])
    THEN With(rs__sys_realloc(w1, w1.inst[s].blk), LAMBDA w2 : GrowHeap(w2, s, ncap))
    ELSE With(rs__sys_malloc(w1), LAMBDA w2 : Promote(w2, s, ncap))

rs_string_reserve_ex(w, s, need) ==
    LET cap == rs_string_cap(w.inst[s])
    IN IF w.fault # "none" THEN w
       ELSE IF need <= cap THEN Ret(w, 0)
       ELSE With(rs__ensure_unique(w, s), LAMBDA w1 : Grow(w1, s, GrowCap(cap, need)))

\* the writer goes on after reserve_ex without asking for a block of its own
Reserved_mut(w, s, need) == rs_string_reserve_ex(w, s, need)

\* the common prologue of the mutators: reserve_ex, then ensure_unique
Reserved(w, s, need) ==
    With(rs_string_reserve_ex(w, s, need), LAMBDA w1 :
        IF w1.fault # "none" \/ w1.ret # 0 THEN w1 ELSE rs__ensure_unique(w1, s))

(***************************************************************************)
(* Assign/Append, Insert/Erase                                             *)
(***************************************************************************)
AssignWrite(w1, s, v) ==
    LET buf == BufOf(w1, w1.inst[s])
    IN IF w1.fault # "none" THEN w1
       ELSE IF w1.ret # 0 THEN Ret(w1, -1)
       ELSE IF Len(v) + 1 > Len(buf) THEN Fail(w1, "overflow")
       ELSE Ret(StoreBuf(w1, s, SetByte(MemCpy(buf, 0, v, Len(v)), Len(v), 0), Len(v)), 0)

rs_string_assign(w, s, v) ==
    With(Reserved(w, s, Len(v)), LAMBDA w1 : AssignWrite(w1, s, v))

\* v copied to the start of the buffer instead of its end
AppendWrite_mut(w1, s, v) ==
    LET x == w1.inst[s]
        buf == BufOf(w1, x)
        n == x.len + Len(v)
    IN IF w1.fault # "none" THEN w1
       ELSE IF w1.ret # 0 THEN Ret(w1, -1)
       ELSE IF n + 1 > Len(buf) THEN Fail(w1, "overflow")
       ELSE Ret(StoreBuf(w1, s, SetByte(MemCpy(buf, 0, v, Len(v)), n, 0), n), 0)

AppendWrite(w1, s, v) ==
    LET x == w1.inst[s]
        buf == BufOf(w1, x)
        n == x.len + Len(v)
    IN IF w1.fault # "none" THEN w1
       ELSE IF w1.ret # 0 THEN Ret(w1, -1)
       ELSE IF n + 1 > Len(buf) THEN Fail(w1, "overflow")
       ELSE Ret(StoreBuf(w1, s, SetByte(MemCpy(buf, x.len, v, Len(v)), n, 0), n), 0)

rs_string_append(w, s, v) ==
    With(Reserved(w, s, w.inst[s].len + Len(v)), LAMBDA w1 : AppendWrite(w1, s, v))

\* the tail is not moved out of the way before v is copied in
InsertWrite_mut(w1, s, pos, v) ==
    LET x == w1.inst[s]
        buf == BufOf(w1, x)
        n == x.len + Len(v)
    IN IF w1.fault # "none" THEN w1
       ELSE IF w1.ret # 0 THEN Ret(w1, -1)
       ELSE IF n + 1 > Len(buf) THEN Fail(w1, "overflow")
       ELSE Ret(StoreBuf(w1, s, SetByte(MemCpy(buf, pos, v, Len(v)), n, 0), n), 0)

InsertWrite(w1, s, pos, v) ==
    LET x == w1.inst[s]
        buf == BufOf(w1, x)
        n == x.len + Len(v)
    IN IF w1.fault # "none" THEN w1
       ELSE IF w1.ret # 0 THEN Ret(w1, -1)
       ELSE IF n + 1 > Len(buf) THEN Fail(w1, "overflow")
       ELSE Ret(StoreBuf(w1, s,
                  SetByte(MemCpy(MemMove(buf, pos + Len(v), pos, x.len - pos),
                                 pos, v, Len(v)), n, 0), n), 0)

rs_string_insert(w, s, pos0, v) ==
    LET pos == IF pos0 > w.inst[s].len THEN w.inst[s].len ELSE pos0
    IN With(Reserved(w, s, w.inst[s].len + Len(v)), LAMBDA w1 : InsertWrite(w1, s, pos, v))

\* memmove(p + pos, p + pos + n, s->len - (pos + n) + 1); s->len -= n;
EraseWrite(w1, s, pos, n) ==
    LET x == w1.inst[s]
        buf == BufOf(w1, x)
        from == (pos + n) % SizeMod
        cnt == (x.len - from + 1) % SizeMod
    IN IF w1.fault # "none" THEN w1
       ELSE IF w1.ret # 0 THEN Ret(w1, -1)
       ELSE IF pos + cnt > Len(buf) \/ from + cnt > Len(buf) THEN Fail(w1, "overflow")
       ELSE Ret(StoreBuf(w1, s, MemMove(buf, pos, from, cnt), (x.len - n) % SizeMod), 0)

rs_string_erase(w, s, pos, n0) ==
    LET len0 == w.inst[s].len
        n == IF (pos + n0) % SizeMod > len0 THEN len0 - pos ELSE n0
    IN IF w.fault # "none" THEN w
       ELSE IF pos > len0 THEN Ret(w, 0)
       ELSE With(rs__ensure_unique(w, s), LAMBDA w1 : EraseWrite(w1, s, pos, n))

(***************************************************************************)
(* Find, Trim, Replace                                                     *)
(***************************************************************************)
\* (size_t) - 1
NPOS == SizeMod - 1

\* memcmp(p + i, what, Len(what)) == 0
Match(c, i, what) == \A k \in 1..Len(what) : c[i + k] = what[k]

\* the for loop of rs_string_find from index i
RECURSIVE FindLoop(_, _, _)
FindLoop(c, what, i) ==
    IF ~((i + Len(what)) % SizeMod <= Len(c)) THEN NPOS
    ELSE IF Match(c, i, what) THEN i
    ELSE FindLoop(c, what, (i + 1) % SizeMod)

rs_string_find(w, s, what, from) ==
    IF Len(what) = 0
    THEN (IF from <= w.inst[s].len THEN from ELSE NPOS)
    ELSE FindLoop(Content(w, s), what, from)

\* memcmp(p + i, what.data, what.len) reads bytes that are not bytes of the string
OutOfBounds(len, what, i) == i + Len(what) > len

\* find dereferences rs_string_cstr(s) when it has bytes to compare
FindFault(w, s, what, from) ==
    LET x == w.inst[s]
    IN IF Len(what) = 0 \/ ~((from + Len(what)) % SizeMod <= x.len) THEN "none"
       ELSE IF OutOfBounds(x.len, what, from) THEN "out_of_bounds"
       ELSE IF rs_string_is_heap(x) THEN Deref(w, x)
       ELSE "none"

\* the character code byte b of the model stands for: a blank (0x20), a byte
\* above 0x7F (0xE9), then letters from 'a' (0x61) on
CharCode(b) == CASE b = 1 -> 32 [] b = 2 -> 233 [] OTHER -> 94 + b

\* the value of the char object p[i] holding code c, char being a signed type
PlainChar(c) == IF c > 127 THEN c - 256 ELSE c

\* the conversion (unsigned char)ch
UnsignedChar(ch) == ch % 256

\* (unsigned char)p[i] <= 0x20
IsSpace(b) == UnsignedChar(PlainChar(CharCode(b))) <= 32

RECURSIVE SkipLeft(_, _)
SkipLeft(c, i) == IF i < Len(c) /\ IsSpace(c[i + 1]) THEN SkipLeft(c, i + 1) ELSE i

RECURSIVE SkipRight(_, _)
SkipRight(c, e) == IF e > 0 /\ IsSpace(c[e]) THEN SkipRight(c, e - 1) ELSE e

rs_string_trim_left(w, s) ==
    LET x == w.inst[s]
    IN IF w.fault # "none" THEN w
       ELSE IF rs_string_is_heap(x) /\ x.len > 0 /\ Deref(w, x) # "none"
       THEN Fail(w, Deref(w, x))
       ELSE With(SkipLeft(Content(w, s), 0), LAMBDA i :
              IF i = 0 THEN Ret(w, 0) ELSE rs_string_erase(w, s, 0, i))

rs_string_trim_right(w, s) ==
    LET x == w.inst[s]
    IN IF w.fault # "none" THEN w
       ELSE IF x.len = 0 THEN Ret(w, 0)
       ELSE IF rs_string_is_heap(x) /\ Deref(w, x) # "none" THEN Fail(w, Deref(w, x))
       ELSE With(SkipRight(Content(w, s), x.len), LAMBDA size :
              IF size = x.len THEN Ret(w, 0) ELSE rs_string_erase(w, s, size, x.len - size))

rs_string_trim(w, s) ==
    With(rs_string_trim_right(w, s), LAMBDA w1 : rs_string_trim_left(w1, s))

\* rs_string_erase(s, pos, n); return rs_string_insert(s, pos, to);
EraseInsert(w, s, pos, n, to) ==
    With(rs_string_erase(w, s, pos, n), LAMBDA w1 : rs_string_insert(w1, s, pos, to))

\* an absent needle reported as a failure
ReplaceAt_mut(w, s, pos, from, to) ==
    IF pos = NPOS THEN Ret(w, -1)
    ELSE EraseInsert(w, s, pos, Len(from), to)

\* rs_string_replace_first once find has answered pos
ReplaceAt(w, s, pos, from, to) ==
    IF pos = NPOS THEN Ret(w, 0)
    ELSE IF Len(from) >= Len(to) THEN EraseInsert(w, s, pos, Len(from), to)
    ELSE With(rs_string_reserve_ex(w, s, w.inst[s].len + (Len(to) - Len(from))), LAMBDA w1 :
           IF w1.fault # "none" THEN w1
           ELSE IF w1.ret # 0 THEN Ret(w1, -1)
           ELSE EraseInsert(w1, s, pos, Len(from), to))

rs_string_replace_first(w, s, from, to) ==
    IF FindFault(w, s, from, 0) # "none" THEN Fail(w, FindFault(w, s, from, 0))
    ELSE With(rs_string_find(w, s, from, 0), LAMBDA pos : ReplaceAt(w, s, pos, from, to))

NoOracle == [m |-> <<>>, r |-> <<>>]

\* the int counter of rs_string_replace_all, kept to a narrow width
CountMod == MaxLen + 2

\* the search resumed after the length of from instead of the length of to
ReplaceAllAt_mut(w, s, pos, from, to, i, count) ==
    IF pos = NPOS
    THEN [w |-> Ret(w, count), i |-> i, count |-> count, done |-> TRUE]
    ELSE With(EraseInsert(w, s, pos, Len(from), to), LAMBDA w1 :
           [w |-> w1, i |-> pos + Len(from), count |-> (count + 1) % CountMod,
            done |-> w1.fault # "none"])

\* the body of the while (1) loop of rs_string_replace_all once find has answered
\* pos: [w, i, count, done], done when the loop breaks
ReplaceAllAt(w, s, pos, from, to, i, count) ==
    IF pos = NPOS
    THEN [w |-> Ret(w, count), i |-> i, count |-> count, done |-> TRUE]
    ELSE With(EraseInsert(w, s, pos, Len(from), to), LAMBDA w1 :
           [w |-> w1, i |-> pos + Len(to), count |-> (count + 1) % CountMod,
            done |-> w1.fault # "none"])

\* one pass of the loop, from non-empty
ReplaceAllIter(w, s, from, to, i, count) ==
    IF FindFault(w, s, from, i) # "none"
    THEN [w |-> Fail(w, FindFault(w, s, from, i)), i |-> i, count |-> count, done |-> TRUE]
    ELSE With(rs_string_find(w, s, from, i), LAMBDA pos :
           ReplaceAllAt(w, s, pos, from, to, i, count))

\* the whole call; a pass that leaves the string, the heap, the allocator and i
\* as it found them repeats for ever: the call does not return ("hang")
RECURSIVE ReplaceAllLoop(_, _, _, _, _, _)
ReplaceAllLoop(w, s, from, to, i, count) ==
    With(ReplaceAllIter(w, s, from, to, i, count), LAMBDA r :
        IF r.done THEN r.w
        ELSE IF r.w.inst = w.inst /\ r.w.heap = w.heap /\ r.w.orc = w.orc /\ r.i = i
        THEN Fail(r.w, "hang")
        ELSE ReplaceAllLoop(r.w, s, from, to, r.i, r.count))

rs_string_replace_all(w, s, from, to) ==
    IF Len(from) = 0 THEN Ret(w, 0)
    ELSE ReplaceAllLoop(w, s, from, to, 0, 0)

(***************************************************************************)
(* Construction from a value                                               *)
(***************************************************************************)
\* the heap branch of rs_string_from_val once a.m has answered
FromValHeap(w1, s, c) ==
    LET h == w1.new
    IN IF h = 0 THEN Fail(w1, "null_deref")
       ELSE [w1 EXCEPT !.heap[h] = [st |-> "live", cap |-> Len(c), rc |-> 1, bytes |-> c],
                       !.inst[s] = [len |-> Len(c), rep |-> "heap", blk |-> h,
                                    cap |-> Len(c), sso |-> <<>>]]

\* rs_string x = rs_string_from_val(c).  The struct is returned by value: when
\* the content stays inline, p holds the address of the callee's own sso, which
\* is x.sso only in a build that constructs the result in place (elide).
rs_string_from_val(w, s, c, elide) ==
    IF Len(c) = 0
    THEN [w EXCEPT !.inst[s] = [InitInst EXCEPT !.rep = IF elide THEN "sso" ELSE "stale"]]
    ELSE IF Len(c) <= RS_SSO_CAP
    THEN [w EXCEPT !.inst[s] = [len |-> Len(c), rep |-> IF elide THEN "sso" ELSE "stale",
                                blk |-> 0, cap |-> RS_SSO_CAP, sso |-> c]]
    ELSE With(rs__sys_malloc(w), LAMBDA w1 : FromValHeap(w1, s, c))

(***************************************************************************)
(* The client program: NInst variables, calls in any order                 *)
(***************************************************************************)
\* the oracles with k answers to a.m and j answers to a.r
Oracles(k, j) == {[m |-> a, r |-> b] : a \in [1..k -> BOOLEAN],
                                       b \in [1..j -> {"ok", "fail", "move"}]}
Orc00 == Oracles(0, 0)
Orc10 == Oracles(1, 0)
Orc01 == Oracles(0, 1)
Orc11 == Oracles(1, 1)
Orc21 == Oracles(2, 1)

\* how the code sees variable s: "sso", "stale", or heap "unique" or "shared"
RepOf(s) ==
    IF inst[s].rep # "heap" THEN inst[s].rep
    ELSE IF heap[inst[s].blk].rc = 1 THEN "unique" ELSE "shared"

\* the answers one call of a primitive on s can ask for: a clone when shared,
\* then a promotion (a.m) when inline or a growth (a.r) when heap
Answers(s) ==
    IF RepOf(s) = "sso" THEN Orc10
    ELSE IF RepOf(s) = "unique" THEN Orc01
    ELSE IF RepOf(s) = "shared" THEN Orc11
    ELSE Orc00

\* the same for the calls made of several primitives (trim, replace)
AnswersN(s) ==
    IF RepOf(s) = "sso" THEN Orc11
    ELSE IF RepOf(s) = "unique" THEN Orc01
    ELSE IF RepOf(s) = "shared" THEN Orc21
    ELSE Orc00

World(orc) == [inst |-> inst, heap |-> heap, orc |-> orc, fault |-> "none",
               ret |-> 0, new |-> 0, fails |-> 0]

Refs(in, b) == {i \in Inst : in[i].rep = "heap" /\ in[i].blk = b}

\* a freed block no variable points at can be handed out again; a block that
\* is still allocated but that no variable points at is never read or written
\* again: it stays allocated with its refcount, its bytes are not kept
Recycle(h, in) ==
    [b \in Blk |-> IF Refs(in, b) # {} THEN h[b]
                   ELSE IF h[b].st = "dead" THEN FreeBlk
                   ELSE IF h[b].st = "live" THEN [h[b] EXCEPT !.cap = 0, !.bytes = <<>>]
                   ELSE h[b]]

\* block addresses carry no meaning: blocks are listed in the order in which
\* the variables point at them, then the unreferenced ones by state and refcount
Key(h, in, b) ==
    IF \E i \in Inst : in[i].rep = "heap" /\ in[i].blk = b
    THEN CHOOSE i \in Inst : /\ in[i].rep = "heap" /\ in[i].blk = b
                             /\ \A j \in 1..(i - 1) : ~(in[j].rep = "heap" /\ in[j].blk = b)
    ELSE IF h[b].st = "live" THEN NInst + 1 + h[b].rc
    ELSE IF h[b].st = "dead" THEN NInst + MaxRc + 3
    ELSE NInst + MaxRc + 4

Renaming(h, in) ==
    With([b \in Blk |-> Key(h, in, b)], LAMBDA k :
        [b \in Blk |-> 1 + Cardinality({c \in Blk : k[c] < k[b] \/ (k[c] = k[b] /\ c < b)})])

\* the world a call leaves, with the blocks recycled and renamed
Renamed(in, h, f) ==
    [inst |-> [i \in Inst |-> IF in[i].rep = "heap" THEN [in[i] EXCEPT !.blk = f[@]] ELSE in[i]],
     heap |-> [c \in Blk |-> h[CHOOSE b \in Blk : f[b] = c]]]

Canon(r) ==
    With(Recycle(r.heap, r.inst), LAMBDA h :
        With(Renaming(h, r.inst), LAMBDA f : Renamed(r.inst, h, f)))

\* the call returned (or ran into undefined behaviour) leaving one of the worlds rs
Commit(rs) ==
    \E r \in rs :
        /\ \A i \in Inst : r.inst[i].len <= MaxLen
        /\ \A b \in Blk : r.heap[b].rc <= MaxRc
        /\ UNCHANGED <<ra, sp, lc, rd, th>>
        /\ IF r.fault # "none"
           THEN fault' = r.fault /\ UNCHANGED <<inst, heap>>
           ELSE \E c \in {Canon(r)} :
                    fault' = "none" /\ inst' = c.inst /\ heap' = c.heap

Idle == fault = "none"

Needles == StrUpTo(1) \cup {<<1, 2>>}

FromVal(s) ==
    /\ Idle /\ inst[s].rep = "sso"
    /\ \E c \in Vals, o \in Orc10, elide \in BOOLEAN :
         Commit({rs_string_from_val(World(o), s, c, elide)})

Free(s) ==
    /\ Idle
    /\ Commit({rs_string_free(World(NoOracle), s)})

Share(dst) ==
    /\ Idle
    /\ \E src \in Inst : Commit({rs_string_share(World(NoOracle), dst, src)})

Reserve(s) ==
    /\ Idle
    /\ \E need \in 0..(MaxLen + 1), o \in Answers(s) :
         Commit({rs_string_reserve_ex(World(o), s, need)})

Assign(s) ==
    /\ Idle
    /\ \E v \in Vals, o \in Answers(s) : Commit({rs_string_assign(World(o), s, v)})

AppendOp(s) ==
    /\ Idle
    /\ \E v \in Vals, o \in Answers(s) :
         /\ inst[s].len + Len(v) <= MaxLen
         /\ Commit({rs_string_append(World(o), s, v)})

Insert(s) ==
    /\ Idle
    /\ \E v \in Vals, pos \in 0..(MaxLen + 1), o \in Answers(s) :
         /\ inst[s].len + Len(v) <= MaxLen
         /\ pos <= inst[s].len + 1
         /\ Commit({rs_string_insert(World(o), s, pos, v)})

Erase(s) ==
    /\ Idle
    /\ \E pos \in 0..(MaxLen + 1), n \in 0..(MaxLen + 1), o \in Answers(s) :
         /\ pos <= inst[s].len + 1
         /\ Commit({rs_string_erase(World(o), s, pos, n)})

Trim(s) ==
    /\ Idle
    /\ \E o \in AnswersN(s) : Commit({rs_string_trim(World(o), s)})

ReplaceFirst(s) ==
    /\ Idle
    /\ \E from \in Needles, to \in Needles, o \in AnswersN(s) :
         Commit({rs_string_replace_first(World(o), s, from, to)})

ReplaceAll(s) ==
    /\ Idle
    /\ \E from \in Needles, to \in Needles, o \in AnswersN(s) :
         Commit({rs_string_replace_all(World(o), s, from, to)})

NoRA == [pc |-> "idle", s |-> 0, from |-> <<>>, to |-> <<>>, i |-> 0, count |-> 0, ret |-> 0]

NoSplit == [pc |-> "idle", s |-> <<>>, sep |-> <<>>, keep |-> TRUE, i |-> 0,
            toks |-> <<>>, kept |-> <<>>]

\* an operation of the library with its arguments
Mut(op, v, u, pos, n) == [op |-> op, v |-> v, u |-> u, pos |-> pos, n |-> n]

NoCall == [pc |-> "idle", kind |-> "built", m |-> Mut("none", <<>>, <<>>, 0, 0),
           old |-> <<>>, oldlen |-> 0, oldcap |-> 0, ret |-> 0, fails |-> 0, k |-> 0,
           freed |-> {}, once |-> <<>>]

NoRead == [pc |-> "idle", op |-> "none", what |-> <<>>, pos |-> 0, n |-> 0, i |-> 0,
           ret |-> 0, oob |-> FALSE, old |-> <<>>, sv |-> [off |-> 0, len |-> 0]]

Thread == 1..2

NoThreads == [t \in Thread |-> [pc |-> "idle", todo |-> <<>>, new |-> 0]]

InitHeap == [b \in Blk |-> FreeBlk]

Init ==
    /\ inst = [i \in Inst |-> InitInst]
    /\ heap = InitHeap
    /\ fault = "none"
    /\ ra = NoRA
    /\ sp = NoSplit
    /\ lc = NoCall
    /\ rd = NoRead
    /\ th = NoThreads

Next ==
    \E s \in Inst :
        \/ FromVal(s)
        \/ Free(s)
        \/ Share(s)
        \/ Reserve(s)
        \/ Assign(s)
        \/ AppendOp(s)
        \/ Insert(s)
        \/ Erase(s)
        \/ Trim(s)
        \/ ReplaceFirst(s)
        \/ ReplaceAll(s)

Spec == Init /\ [][Next]_vars

(***************************************************************************)
(* rs_string_replace_all, one pass of its loop at a time                   *)
(***************************************************************************)
InitWorld == [inst |-> [i \in Inst |-> InitInst], heap |-> InitHeap, orc |-> NoOracle,
              fault |-> "none", ret |-> 0, new |-> 0, fails |-> 0]

\* variable 1 holding c: inline when c fits ("inline"), in a heap block of its
\* own ("unique"), or in a heap block that variable 2 shares ("shared")
Built(c, kind) ==
    IF kind = "inline" THEN rs_string_assign(InitWorld, 1, c)
    ELSE With(rs_string_reserve_ex(InitWorld, 1, RS_SSO_CAP + 1), LAMBDA w1 :
           With(rs_string_assign(w1, 1, c), LAMBDA w2 :
              IF kind = "unique" THEN w2 ELSE rs_string_share(w2, 2, 1)))

Kinds == {"inline", "unique", "shared"}

InitRA ==
    /\ \E c \in Vals, kind \in Kinds :
         \E w \in {Built(c, kind)} : inst = w.inst /\ heap = w.heap
    /\ fault = "none"
    /\ \E from \in Needles, to \in Needles :
         ra = [NoRA EXCEPT !.pc = "call", !.s = 1, !.from = from, !.to = to]
    /\ sp = NoSplit
    /\ lc = NoCall
    /\ rd = NoRead
    /\ th = NoThreads

\* if (from.len == 0) return 0; size_t i = 0; int count = 0;
RACall ==
    /\ ra.pc = "call"
    /\ ra' = [ra EXCEPT !.pc = IF Len(ra.from) = 0 THEN "done" ELSE "loop"]
    /\ UNCHANGED <<inst, heap, fault, sp, lc, rd, th>>

\* the allocator answers as it likes during the pass
RAPass ==
    /\ ra.pc = "loop"
    /\ \E o \in Orc21 :
         \E r \in {ReplaceAllIter(World(o), ra.s, ra.from, ra.to, ra.i, ra.count)} :
            /\ ra' = [ra EXCEPT !.pc = IF r.done THEN "done" ELSE "loop",
                                !.i = r.i, !.count = r.count,
                                !.ret = IF r.done THEN r.w.ret ELSE 0]
            /\ fault' = r.w.fault
            /\ \E c \in {Canon(r.w)} : inst' = c.inst /\ heap' = c.heap
    /\ UNCHANGED <<sp, lc, rd, th>>

NextRA == RACall \/ RAPass

\* the call is running: it takes its next step
SpecRA == InitRA /\ [][NextRA]_vars /\ WF_vars(NextRA)

(***************************************************************************)
(* rs_sv_split.  A token is the slice [off, off + len) of the input.  The  *)
(* client splits its input with keep_empty = 1, then again with            *)
(* keep_empty = 0.                                                         *)
(***************************************************************************)
\* longest input given to rs_sv_split
SplitLen == 5

SplitVals == StrUpTo(SplitLen)
SplitSeps == StrUpTo(2)

Tok(off, len) == [off |-> off, len |-> len]

\* the bytes of token t of input s
TokStr(s, t) == SubSeq(s, t.off + 1, t.off + t.len)

\* the test on the token dropped: every token is delivered
Emit_mut(toks, tok, keep) == Append(toks, tok)

\* if (tok.len > 0 || keep_empty) cb(tok, ctx);
Emit(toks, tok, keep) == IF tok.len > 0 \/ keep THEN Append(toks, tok) ELSE toks

\* for (size_t j = i; j + sep.len <= s.len; ++j): the first match, or (size_t)-1
RECURSIVE SplitScan(_, _, _)
SplitScan(s, sep, j) ==
    IF ~(j + Len(sep) <= Len(s)) THEN NPOS
    ELSE IF Match(s, j, sep) THEN j
    ELSE SplitScan(s, sep, j + 1)

\* the scan resumed one byte after the match instead of after the separator
SplitAt_mut(s, sep, keep, i, toks, pos) ==
    LET t1 == Emit(toks, Tok(i, pos - i), keep)
        i1 == pos + 1
    IN IF i1 = Len(s) /\ keep
       THEN [i |-> i1, toks |-> Append(t1, Tok(i1, 0)), done |-> TRUE]
       ELSE [i |-> i1, toks |-> t1, done |-> FALSE]

\* one pass of the while loop, pos found
SplitAt(s, sep, keep, i, toks, pos) ==
    LET t1 == Emit(toks, Tok(i, pos - i), keep)
        i1 == pos + Len(sep)
    IN IF i1 = Len(s) /\ keep
       THEN [i |-> i1, toks |-> Append(t1, Tok(i1, 0)), done |-> TRUE]
       ELSE [i |-> i1, toks |-> t1, done |-> FALSE]

\* one pass of the while loop
SplitPass(s, sep, keep, i, toks) ==
    LET pos == SplitScan(s, sep, i)
    IN IF pos = NPOS
       THEN [i |-> i, toks |-> Emit(toks, Tok(i, Len(s) - i), keep), done |-> TRUE]
       ELSE SplitAt(s, sep, keep, i, toks, pos)

InitSplit ==
    /\ inst = [i \in Inst |-> InitInst]
    /\ heap = InitHeap
    /\ fault = "none"
    /\ ra = NoRA
    /\ lc = NoCall
    /\ rd = NoRead
    /\ th = NoThreads
    /\ \E s \in SplitVals, sep \in SplitSeps :
         sp = [NoSplit EXCEPT !.pc = "call", !.s = s, !.sep = sep]

\* size_t i = 0; if (sep.len == 0) { if (s.len > 0 || keep_empty) cb(s, ctx); return; }
SplitCall ==
    /\ sp.pc = "call"
    /\ sp' = IF Len(sp.sep) = 0
             THEN [sp EXCEPT !.pc = "done", !.i = 0,
                             !.toks = Emit(<<>>, Tok(0, Len(sp.s)), sp.keep)]
             ELSE [sp EXCEPT !.pc = "loop", !.i = 0, !.toks = <<>>]
    /\ UNCHANGED <<inst, heap, fault, ra, lc, rd, th>>

\* while (i <= s.len) { ... }
SplitStep ==
    /\ sp.pc = "loop"
    /\ IF sp.i <= Len(sp.s)
       THEN \E r \in {SplitPass(sp.s, sp.sep, sp.keep, sp.i, sp.toks)} :
               sp' = [sp EXCEPT !.pc = IF r.done THEN "done" ELSE "loop",
                                !.i = r.i, !.toks = r.toks]
       ELSE sp' = [sp EXCEPT !.pc = "done"]
    /\ UNCHANGED <<inst, heap, fault, ra, lc, rd, th>>

\* the second call of the client, on the same input
SplitAgain ==
    /\ sp.pc = "done" /\ sp.keep
    /\ sp' = [sp EXCEPT !.pc = "call", !.keep = FALSE, !.kept = sp.toks, !.toks = <<>>]
    /\ UNCHANGED <<inst, heap, fault, ra, lc, rd, th>>

NextSplit == SplitCall \/ SplitStep \/ SplitAgain

SpecSplit == InitSplit /\ [][NextSplit]_vars

(***************************************************************************)
(* A test client: variable A is given a content, variable B may share it   *)
(* and drop it again, then one operation is called on A; an append may be  *)
(* repeated, an insert undone by an erase, and the variables are released  *)
(* in either order.                                                        *)
(***************************************************************************)
A == 1
B == 2

\* how many times the client repeats an append
MaxRepeat == 3

Primitives == {"reserve", "assign", "append", "insert", "erase"}

Trims == {"trim_left", "trim_right", "trim"}

\* the calls the client can make on a string of length len
Mutations(len) ==
    {Mut("reserve", <<>>, <<>>, 0, n) : n \in 0..(MaxLen + 2)}
    \cup {Mut(op, v, <<>>, 0, 0) : op \in {"assign", "append"}, v \in Vals}
    \cup {Mut("insert", v, <<>>, pos, 0) : v \in Vals, pos \in 0..(len + 1)}
    \cup {Mut("erase", <<>>, <<>>, pos, n) : pos \in 0..(len + 1), n \in 0..(len + 1)}
    \cup {Mut(op, <<>>, <<>>, 0, 0) : op \in Trims}
    \cup {Mut(op, from, to, 0, 0) : op \in {"replace_first", "replace_all"},
                                    from \in Needles, to \in Needles}

\* the call m on variable s
Apply(w, s, m) ==
    CASE m.op = "reserve" -> rs_string_reserve_ex(w, s, m.n)
      [] m.op = "assign" -> rs_string_assign(w, s, m.v)
      [] m.op = "append" -> rs_string_append(w, s, m.v)
      [] m.op = "insert" -> rs_string_insert(w, s, m.pos, m.v)
      [] m.op = "erase" -> rs_string_erase(w, s, m.pos, m.n)
      [] m.op = "trim_left" -> rs_string_trim_left(w, s)
      [] m.op = "trim_right" -> rs_string_trim_right(w, s)
      [] m.op = "trim" -> rs_string_trim(w, s)
      [] m.op = "replace_first" -> rs_string_replace_first(w, s, m.v, m.u)
      [] m.op = "replace_all" -> rs_string_replace_all(w, s, m.v, m.u)

InitCall ==
    /\ \E c \in Vals, kind \in {"inline", "unique"} :
         \E w \in {Built(c, kind)} : inst = w.inst /\ heap = w.heap
    /\ fault = "none"
    /\ ra = NoRA
    /\ sp = NoSplit
    /\ lc = [NoCall EXCEPT !.pc = "built"]
    /\ rd = NoRead
    /\ th = NoThreads

\* the variables and the heap of world r become those of the state
Lands(r) ==
    /\ fault' = r.fault
    /\ IF r.fault # "none" THEN UNCHANGED <<inst, heap>>
       ELSE \E c \in {Canon(r)} : inst' = c.inst /\ heap' = c.heap

\* the world r becomes the state
Becomes(r) == Lands(r) /\ UNCHANGED <<ra, sp, rd, th>>

\* rs_string_share(&B, &A)
CallShare ==
    /\ lc.pc = "built" /\ fault = "none"
    /\ Becomes(rs_string_share(World(NoOracle), B, A))
    /\ lc' = [lc EXCEPT !.pc = "shared", !.kind = "shared"]

\* rs_string_free(&B) before A is touched
CallRelease ==
    /\ lc.pc = "shared" /\ fault = "none"
    /\ Becomes(rs_string_free(World(NoOracle), B))
    /\ lc' = [lc EXCEPT !.pc = "released", !.kind = "released"]

\* one operation on A
CallMutate ==
    /\ lc.pc \in {"built", "shared", "released"} /\ fault = "none"
    /\ \E m \in Mutations(inst[A].len), o \in Orc21 :
         \E r \in {Apply(World(o), A, m)} :
            /\ Becomes(r)
            /\ lc' = [lc EXCEPT !.pc = "called", !.m = m, !.k = 1,
                                !.old = Content(World(o), A),
                                !.oldlen = inst[A].len,
                                !.oldcap = rs_string_cap(inst[A]),
                                !.ret = r.ret, !.fails = r.fails]

\* the same append once more
CallAgain ==
    /\ lc.pc = "called" /\ fault = "none"
    /\ lc.m.op = "append" /\ lc.ret = 0 /\ lc.k < MaxRepeat
    /\ \E o \in Orc11 :
         \E r \in {rs_string_append(World(o), A, lc.m.v)} :
            /\ Becomes(r)
            /\ lc' = [lc EXCEPT !.k = @ + 1, !.ret = r.ret, !.fails = @ + r.fails]

\* rs_string_erase(&A, pos, v.len) after rs_string_insert(&A, pos, v) succeeded
CallUndo ==
    /\ lc.pc = "called" /\ fault = "none"
    /\ lc.m.op = "insert" /\ lc.ret = 0
    /\ \E o \in Orc10 :
         \E r \in {rs_string_erase(World(o), A, lc.m.pos, Len(lc.m.v))} :
            /\ Becomes(r)
            /\ lc' = [lc EXCEPT !.pc = "undone", !.ret = r.ret, !.fails = @ + r.fails]

\* the same trim once more, after it returned 0
CallTwice ==
    /\ lc.pc = "called" /\ fault = "none"
    /\ lc.m.op \in Trims /\ lc.ret = 0
    /\ \E o \in Orc21 :
         \E r \in {Apply(World(o), A, lc.m)} :
            /\ Becomes(r)
            /\ lc' = [lc EXCEPT !.pc = "twice", !.once = Content(World(o), A),
                                !.ret = r.ret, !.fails = @ + r.fails]

\* rs_string_free on a variable not yet released
CallFree ==
    /\ lc.pc \in {"called", "freed"} /\ fault = "none"
    /\ lc.k = 1
    /\ \E s \in {A, B} \ lc.freed :
         /\ Becomes(rs_string_free(World(NoOracle), s))
         /\ lc' = [lc EXCEPT !.pc = "freed", !.freed = @ \cup {s}]

NextCall ==
    \/ CallShare \/ CallRelease \/ CallMutate
    \/ CallAgain \/ CallUndo \/ CallTwice \/ CallFree

SpecCall == InitCall /\ [][NextCall]_vars

(***************************************************************************)
(* Indices from the whole range of size_t: one call of rs_string_find (its *)
(* loop one pass at a time), of rs_string_erase or of rs_sv_substr on a    *)
(* string built beforehand.  A pointer formed or bytes read outside the    *)
(* buffer are undefined: the build wraps the address around, or traps.     *)
(***************************************************************************)
IdxVals == 0..(SizeMod - 1)

\* rs_sv_substr on a view of length len: the view [off, off + len) it returns
rs_sv_substr(len, pos0, n0) ==
    LET pos == IF pos0 > len THEN len ELSE pos0
        n == IF (pos + n0) % SizeMod > len THEN len - pos ELSE n0
    IN [off |-> pos, len |-> n]

InitIdx ==
    /\ \E c \in Vals, kind \in Kinds :
         \E w \in {Built(c, kind)} : inst = w.inst /\ heap = w.heap
    /\ fault = "none"
    /\ ra = NoRA
    /\ sp = NoSplit
    /\ lc = NoCall
    /\ th = NoThreads
    /\ \E op \in {"find", "erase", "substr"}, what \in Needles,
          pos \in IdxVals, n \in IdxVals :
         /\ op = "find" => n = 0
         /\ op # "find" => what = <<>> /\ (pos <= MaxLen + 1 \/ pos = SizeMod - 1)
         /\ rd = [NoRead EXCEPT !.pc = "call", !.op = op, !.what = what,
                                !.pos = pos, !.n = n]

\* const char* p = rs_string_cstr(s); if (what.len == 0) return ...;
IdxFindCall ==
    /\ rd.pc = "call" /\ rd.op = "find"
    /\ rd' = IF Len(rd.what) = 0
             THEN [rd EXCEPT !.pc = "done", !.old = Content(World(NoOracle), A),
                             !.ret = rs_string_find(World(NoOracle), A, rd.what, rd.pos)]
             ELSE [rd EXCEPT !.pc = "loop", !.old = Content(World(NoOracle), A),
                             !.i = rd.pos]
    /\ UNCHANGED <<inst, heap, fault, ra, sp, lc, th>>

\* one pass of for (size_t i = from; i + what.len <= s->len; ++i)
IdxFindStep ==
    /\ rd.pc = "loop"
    /\ IF ~((rd.i + Len(rd.what)) % SizeMod <= inst[A].len)
       THEN rd' = [rd EXCEPT !.pc = "done", !.ret = NPOS] /\ UNCHANGED fault
       ELSE IF OutOfBounds(inst[A].len, rd.what, rd.i)
       THEN \E outcome \in {"equal", "differ", "trap"} :
               /\ fault' = IF outcome = "trap" THEN "out_of_bounds" ELSE fault
               /\ rd' = IF outcome = "differ"
                        THEN [rd EXCEPT !.oob = TRUE, !.i = (rd.i + 1) % SizeMod]
                        ELSE IF outcome = "equal"
                        THEN [rd EXCEPT !.oob = TRUE, !.pc = "done", !.ret = rd.i]
                        ELSE [rd EXCEPT !.oob = TRUE, !.pc = "done"]
       ELSE /\ UNCHANGED fault
            /\ rd' = IF Match(rd.old, rd.i, rd.what)
                     THEN [rd EXCEPT !.pc = "done", !.ret = rd.i]
                     ELSE [rd EXCEPT !.i = (rd.i + 1) % SizeMod]
    /\ UNCHANGED <<inst, heap, ra, sp, lc, th>>

\* p + pos + n is formed outside the buffer of s
ErasePastEnd(len, pos, n) ==
    pos <= len /\ pos + n >= SizeMod /\ (pos + n) % SizeMod <= len

IdxErase ==
    /\ rd.pc = "call" /\ rd.op = "erase"
    /\ \E o \in Orc10, trap \in BOOLEAN :
         \E r \in {rs_string_erase(World(o), A, rd.pos, rd.n)} :
            /\ trap => ErasePastEnd(inst[A].len, rd.pos, rd.n)
            /\ IF trap THEN fault' = "out_of_bounds" /\ UNCHANGED <<inst, heap>>
               ELSE Lands(r)
            /\ rd' = [rd EXCEPT !.pc = "done", !.old = Content(World(o), A),
                                !.oob = ErasePastEnd(inst[A].len, rd.pos, rd.n),
                                !.ret = r.ret]
    /\ UNCHANGED <<ra, sp, lc, th>>

\* rs_sv_substr(view of A, pos, n)
IdxSubstr ==
    /\ rd.pc = "call" /\ rd.op = "substr"
    /\ rd' = [rd EXCEPT !.pc = "done", !.old = Content(World(NoOracle), A),
                        !.sv = rs_sv_substr(inst[A].len, rd.pos, rd.n)]
    /\ UNCHANGED <<inst, heap, fault, ra, sp, lc, th>>

NextIdx == IdxFindCall \/ IdxFindStep \/ IdxErase \/ IdxSubstr

SpecIdx == InitIdx /\ [][NextIdx]_vars

(***************************************************************************)
(* Two threads, RS_ATOMIC_REFCOUNT defined.  Thread t owns variable t; the *)
(* two variables point at one heap block.  Each thread erases the first    *)
(* byte of its string (rs_string_erase: rs__ensure_unique, then the write) *)
(* and/or releases it (rs_string_free).  rs__rc_get, rs__rc_inc and        *)
(* rs__rc_dec are atomic, everything between them is interleaved.         *)
(***************************************************************************)
\* variable 2 made a sharer of the block of variable 1 by a struct copy and
\* rs__retain
Retained(c) ==
    With(Built(c, "unique"), LAMBDA w : rs__retain([w EXCEPT !.inst[2] = w.inst[1]], 2))

Programs == {<<"mutate">>, <<"release">>, <<"mutate", "release">>}

InitThreads ==
    /\ \E w \in {Built(c, "shared") : c \in Vals} \cup {Retained(c) : c \in Vals} :
         inst = w.inst /\ heap = w.heap
    /\ fault = "none"
    /\ ra = NoRA
    /\ sp = NoSplit
    /\ lc = NoCall
    /\ rd = NoRead
    /\ \E p \in [Thread -> Programs] :
         th = [t \in Thread |-> [pc |-> "start", todo |-> p[t], new |-> 0]]

\* thread t is done with the call at the head of its program
Finished(t) ==
    [th EXCEPT ![t].todo = Tail(@), ![t].new = 0,
               ![t].pc = IF Len(th[t].todo) > 1 THEN "start" ELSE "done"]

Running(t, pc, op) ==
    fault = "none" /\ th[t].pc = pc /\ th[t].todo # <<>> /\ Head(th[t].todo) = op

\* rs__ensure_unique: if (!rs_string_is_heap(s)) return 0; if (rs__rc_get(&h->rc) == 1) return 0;
ThGet(t) ==
    /\ Running(t, "start", "mutate")
    /\ IF ~rs_string_is_heap(inst[t]) THEN th' = [th EXCEPT ![t].pc = "write"] /\ UNCHANGED fault
       ELSE IF heap[inst[t].blk].st # "live"
       THEN fault' = "use_after_free" /\ UNCHANGED th
       ELSE /\ th' = [th EXCEPT ![t].pc = IF heap[inst[t].blk].rc = 1 THEN "write"
                                            ELSE "alloc"]
            /\ UNCHANGED fault
    /\ UNCHANGED <<inst, heap, ra, sp, lc, rd>>

\* nh = a.m(...); if (!nh) return -1; nh->cap = cap; nh->rc = 1; memcpy(np, s->p, s->len + 1);
ThAlloc(t) ==
    /\ Running(t, "alloc", "mutate")
    /\ \E ok \in BOOLEAN :
         \E w1 \in {rs__sys_malloc(World([m |-> <<ok>>, r |-> <<>>]))} :
            LET x == inst[t]
                h == heap[x.blk]
            IN IF w1.new = 0
               THEN th' = Finished(t) /\ UNCHANGED <<heap, fault>>
               ELSE IF h.st # "live"
               THEN fault' = "use_after_free" /\ UNCHANGED <<heap, th>>
               ELSE /\ heap' = [w1.heap EXCEPT ![w1.new] =
                                   [st |-> "live", cap |-> h.cap, rc |-> 1,
                                    bytes |-> SubSeq(Pad(h.bytes, h.cap + 1), 1, x.len)]]
                    /\ th' = [th EXCEPT ![t].pc = "dec", ![t].new = w1.new]
                    /\ UNCHANGED fault
    /\ UNCHANGED <<inst, ra, sp, lc, rd>>

\* rs__rc_dec(&h->rc); s->p = np; s->cap = cap; return 0;
ThDec(t) ==
    /\ Running(t, "dec", "mutate")
    /\ IF heap[inst[t].blk].st # "live"
       THEN fault' = "use_after_free" /\ UNCHANGED <<inst, heap, th>>
       ELSE /\ heap' = [heap EXCEPT ![inst[t].blk].rc = @ - 1]
            /\ inst' = [inst EXCEPT ![t].blk = th[t].new]
            /\ th' = [th EXCEPT ![t].pc = "write", ![t].new = 0]
            /\ UNCHANGED fault
    /\ UNCHANGED <<ra, sp, lc, rd>>

\* the memmove of rs_string_erase(s, 0, 1) and s->len -= n
ThWrite(t) ==
    /\ Running(t, "write", "mutate")
    /\ \E r \in {EraseWrite(World(NoOracle), t, 0, IF inst[t].len = 0 THEN 0 ELSE 1)} :
         fault' = r.fault /\ inst' = r.inst /\ heap' = r.heap
    /\ th' = Finished(t)
    /\ UNCHANGED <<ra, sp, lc, rd>>

\* rs_string_free: if (rs__rc_dec(&h->rc) == 0) ...; otherwise rs_string_init(s)
ThRelDec(t) ==
    /\ Running(t, "start", "release")
    /\ IF ~rs_string_is_heap(inst[t])
       THEN inst' = [inst EXCEPT ![t] = InitInst] /\ th' = Finished(t)
            /\ UNCHANGED <<heap, fault>>
       ELSE IF heap[inst[t].blk].st # "live"
       THEN fault' = "use_after_free" /\ UNCHANGED <<inst, heap, th>>
       ELSE /\ heap' = [heap EXCEPT ![inst[t].blk].rc = @ - 1]
            /\ IF heap[inst[t].blk].rc - 1 = 0
               THEN th' = [th EXCEPT ![t].pc = "free"] /\ UNCHANGED inst
               ELSE th' = Finished(t) /\ inst' = [inst EXCEPT ![t] = InitInst]
            /\ UNCHANGED fault
    /\ UNCHANGED <<ra, sp, lc, rd>>

\* rs_default_alloc().f(h, NULL); rs_string_init(s);
ThFree(t) ==
    /\ Running(t, "free", "release")
    /\ \E r \in {rs__sys_free(World(NoOracle), inst[t].blk)} :
         /\ fault' = r.fault /\ heap' = r.heap
         /\ inst' = IF r.fault = "none" THEN [inst EXCEPT ![t] = InitInst] ELSE inst
    /\ th' = Finished(t)
    /\ UNCHANGED <<ra, sp, lc, rd>>

NextThreads ==
    \E t \in Thread :
        ThGet(t) \/ ThAlloc(t) \/ ThDec(t) \/ ThWrite(t) \/ ThRelDec(t) \/ ThFree(t)

SpecThreads == InitThreads /\ [][NextThreads]_vars

\* the state as a world, no allocation pending
Now == World(NoOracle)

(***************************************************************************)
(* What the operations are to compute, on contents                         *)
(***************************************************************************)
Least(x, y) == IF x < y THEN x ELSE y

RefInsert(c, p, v) ==
    SubSeq(c, 1, Least(p, Len(c))) \o v \o SubSeq(c, Least(p, Len(c)) + 1, Len(c))

RefErase(c, p, n) ==
    IF p > Len(c) THEN c
    ELSE SubSeq(c, 1, p) \o SubSeq(c, p + Least(n, Len(c) - p) + 1, Len(c))

RECURSIVE RefTrimLeft(_)
RefTrimLeft(c) == IF c # <<>> /\ IsSpace(Head(c)) THEN RefTrimLeft(Tail(c)) ELSE c

RECURSIVE RefTrimRight(_)
RefTrimRight(c) ==
    IF c # <<>> /\ IsSpace(c[Len(c)]) THEN RefTrimRight(SubSeq(c, 1, Len(c) - 1)) ELSE c

\* from lies in c at offset i
StartsAt(c, i, from) == i + Len(from) <= Len(c) /\ SubSeq(c, i + 1, i + Len(from)) = from

Occurs(c, from) == \E i \in 0..Len(c) : StartsAt(c, i, from)

\* c from offset i on, each occurrence of from (the first only, unless all) replaced
RECURSIVE RefReplace(_, _, _, _, _)
RefReplace(c, from, to, i, all) ==
    IF StartsAt(c, i, from) /\ (Len(from) > 0 \/ ~all)
    THEN to \o (IF all THEN RefReplace(c, from, to, i + Len(from), all)
                ELSE SubSeq(c, i + Len(from) + 1, Len(c)))
    ELSE IF i >= Len(c) THEN <<>>
    ELSE <<c[i + 1]>> \o RefReplace(c, from, to, i + 1, all)

\* v, k times
RECURSIVE Repeated(_, _)
Repeated(v, k) == IF k = 0 THEN <<>> ELSE v \o Repeated(v, k - 1)

\* the content call m is to leave in a string that held c
Expected(c, m) ==
    CASE m.op = "reserve" -> c
      [] m.op = "assign" -> m.v
      [] m.op = "append" -> c \o m.v
      [] m.op = "insert" -> RefInsert(c, m.pos, m.v)
      [] m.op = "erase" -> RefErase(c, m.pos, m.n)
      [] m.op = "trim_left" -> RefTrimLeft(c)
      [] m.op = "trim_right" -> RefTrimRight(c)
      [] m.op = "trim" -> RefTrimLeft(RefTrimRight(c))
      [] m.op = "replace_first" -> RefReplace(c, m.v, m.u, 0, FALSE)
      [] m.op = "replace_all" -> RefReplace(c, m.v, m.u, 0, TRUE)

\* the number of left-to-right non-overlapping occurrences of sep in s from i on
RECURSIVE CountOcc(_, _, _)
CountOcc(s, sep, i) ==
    IF i + Len(sep) > Len(s) THEN 0
    ELSE IF SubSeq(s, i + 1, i + Len(sep)) = sep THEN 1 + CountOcc(s, sep, i + Len(sep))
    ELSE CountOcc(s, sep, i + 1)

\* tokens k.. of toks, joined with sep
RECURSIVE Join(_, _, _, _)
Join(s, toks, sep, k) ==
    IF k > Len(toks) THEN <<>>
    ELSE IF k = Len(toks) THEN TokStr(s, toks[k])
    ELSE TokStr(s, toks[k]) \o sep \o Join(s, toks, sep, k + 1)

NonEmptyTok(t) == t.len > 0

(***************************************************************************)
(* Properties                                                              *)
(***************************************************************************)
\* C1: in every reachable state each heap block's refcount is the number of
\* variables whose p points at the block, and a block is freed exactly when that
\* number drops to zero (no allocated block is left that no variable points at).
C1_RefcountExact ==
    fault = "none" =>
        \A b \in Blk :
            /\ heap[b].st = "live" =>
                   heap[b].rc = Cardinality(Refs(inst, b)) /\ Refs(inst, b) # {}
            /\ Refs(inst, b) # {} => heap[b].st = "live"

\* C2: after rs_string_share(&B, &A) and any mutating call on A that returns, B
\* has the content and length A had, A has the mutated content when no allocation
\* failed, and A and B are released in either order without a block being freed
\* twice or used after it was freed.
C2_CowIsolation ==
    (lc.kind = "shared" /\ lc.pc \in {"called", "freed"} /\ fault # "hang") =>
        /\ fault = "none"
        /\ B \notin lc.freed =>
              Content(Now, B) = lc.old /\ inst[B].len = lc.oldlen
        /\ (lc.pc = "called" /\ lc.k = 1 /\ lc.fails = 0) =>
              Content(Now, A) = Expected(lc.old, lc.m)
        /\ \A b \in Blk : Refs(inst, b) # {} => heap[b].st = "live"

\* A was in a heap block shared with B, an insert cloned it, A was released first
C2_Witness ==
    /\ lc.kind = "shared" /\ lc.pc = "freed" /\ lc.freed = {A} /\ fault = "none"
    /\ lc.m.op = "insert" /\ lc.fails = 0 /\ lc.ret = 0
    /\ Len(lc.old) = RS_SSO_CAP + 1 /\ Len(lc.m.v) > 0
    /\ Content(Now, B) = lc.old /\ inst[B].rep = "heap"

\* C3: when reserve, assign, append, insert or erase returns its failure
\* indicator, the length, the visible content and the capacity of the instance
\* are what they were before the call (inline, unique heap or shared heap).
C3_FailureAtomic ==
    (lc.pc = "called" /\ lc.k = 1 /\ lc.m.op \in Primitives /\ fault = "none") =>
        /\ lc.ret \in {0, -1}
        /\ lc.ret = -1 =>
              /\ lc.fails > 0
              /\ inst[A].len = lc.oldlen
              /\ Content(Now, A) = lc.old
              /\ rs_string_cap(inst[A]) = lc.oldcap

\* the clone of a shared block succeeded, the growth that followed failed
C3_Witness ==
    /\ lc.pc = "called" /\ lc.kind = "shared" /\ lc.m.op = "append" /\ fault = "none"
    /\ lc.ret = -1 /\ lc.fails = 1
    /\ inst[A].rep = "heap" /\ inst[B].rep = "heap" /\ inst[A].blk # inst[B].blk
    /\ Content(Now, A) = lc.old /\ Len(lc.old) > 0

\* C4: a successful append(s, v) leaves the old content followed by v and adds
\* v.length to the length, across the promotion to the heap and across every
\* reallocation; appending v k times leaves v repeated k times after the old
\* content.
C4_Append ==
    (lc.pc = "called" /\ lc.m.op = "append" /\ lc.ret = 0 /\ fault = "none") =>
        /\ Content(Now, A) = lc.old \o Repeated(lc.m.v, lc.k)
        /\ inst[A].len = lc.oldlen + lc.k * Len(lc.m.v)
        /\ inst[A].len <= rs_string_cap(inst[A])

\* an empty inline string, a two-byte pattern appended MaxRepeat times
C4_Witness ==
    /\ lc.pc = "called" /\ lc.m.op = "append" /\ lc.ret = 0 /\ fault = "none"
    /\ lc.kind = "built" /\ lc.old = <<>> /\ lc.oldcap = RS_SSO_CAP
    /\ lc.m.v = <<1, 2>> /\ lc.k = MaxRepeat
    /\ Content(Now, A) = Repeated(<<1, 2>>, MaxRepeat) /\ inst[A].rep = "heap"

\* C5 as claimed: insert(s, p, v) then erase(s, p, v.length) leaves the original
\* content and length, for any position p, also p greater than the length.
C5_RoundTripAnyPos ==
    (lc.pc = "undone" /\ lc.ret = 0 /\ fault = "none") =>
        Content(Now, A) = lc.old /\ inst[A].len = lc.oldlen

\* C5 amended: the same for the positions p <= length(s).
C5_RoundTrip ==
    (lc.pc = "undone" /\ lc.ret = 0 /\ fault = "none" /\ lc.m.pos <= lc.oldlen) =>
        Content(Now, A) = lc.old /\ inst[A].len = lc.oldlen

\* an insert in the middle of a shared heap string, undone
C5_Witness ==
    /\ lc.pc = "undone" /\ lc.ret = 0 /\ fault = "none" /\ lc.kind = "shared"
    /\ lc.m.pos = 1 /\ lc.oldlen = 2 /\ Len(lc.m.v) = 2
    /\ Content(Now, A) = lc.old

\* C6 as claimed: the value replace_first returns when it found and replaced the
\* first occurrence of from differs from the value it returns when from does not
\* occur.
C6_ReturnTellsReplaced ==
    (/\ lc.pc = "called" /\ lc.m.op = "replace_first" /\ fault = "none"
     /\ Occurs(lc.old, lc.m.v) /\ lc.fails = 0
     /\ Content(Now, A) = Expected(lc.old, lc.m)) =>
        \A n \in Needles :
            ~Occurs(Content(Now, A), n) =>
                rs_string_replace_first(Now, A, n, <<>>).ret # lc.ret

\* C6 amended: replace_first returns 0 when from does not occur (the string is
\* left as it was) and 0 as well when the occurrence was replaced; it returns -1
\* only when an allocation failed.
C6_ReturnIsStatus ==
    (lc.pc = "called" /\ lc.m.op = "replace_first" /\ fault = "none") =>
        /\ lc.ret \in {0, -1}
        /\ lc.ret = -1 => lc.fails > 0
        /\ lc.fails = 0 => lc.ret = 0 /\ Content(Now, A) = Expected(lc.old, lc.m)
        /\ ~Occurs(lc.old, lc.m.v) =>
              lc.ret = 0 /\ Content(Now, A) = lc.old /\ inst[A].len = lc.oldlen

\* a replacement was made and 0 returned; a needle that does not occur gives 0 too
C6_Witness ==
    /\ lc.pc = "called" /\ lc.m.op = "replace_first" /\ fault = "none"
    /\ lc.old = <<1, 2>> /\ lc.m.v = <<2>> /\ lc.m.u = <<1, 2>>
    /\ Content(Now, A) = <<1, 1, 2>> /\ lc.ret = 0
    /\ rs_string_replace_first(Now, A, <<2, 2>>, <<>>).ret = 0

\* C7: for a non-empty from, when the allocations succeed, replace_all leaves the
\* original content with each left-to-right non-overlapping occurrence of from
\* replaced by to (text just inserted is not matched again) and returns the number
\* of occurrences.
C7_ReplaceAll ==
    (/\ lc.pc = "called" /\ lc.m.op = "replace_all" /\ fault = "none"
     /\ Len(lc.m.v) > 0 /\ lc.fails = 0) =>
        /\ Content(Now, A) = RefReplace(lc.old, lc.m.v, lc.m.u, 0, TRUE)
        /\ lc.ret = CountOcc(lc.old, lc.m.v, 0)
        /\ inst[A].len = Len(Content(Now, A))

\* to contains from: "aa" with "a" replaced by "ab" is "abab", 2 replacements
C7_Witness ==
    /\ lc.pc = "called" /\ lc.m.op = "replace_all" /\ fault = "none" /\ lc.fails = 0
    /\ lc.old = <<1, 1>> /\ lc.m.v = <<1>> /\ lc.m.u = <<1, 2>>
    /\ Content(Now, A) = <<1, 2, 1, 2>> /\ lc.ret = 2

\* C8: rs_string_replace_all always terminates: with an empty from it returns 0
\* at once and leaves the instance as it was, and with a non-empty from its loop
\* reaches its exit, whatever the allocator answers to erase and insert.
C8_ReplaceAllTerminates ==
    /\ [][(ra.pc = "call" /\ Len(ra.from) = 0)
            => (ra'.pc = "done" /\ ra'.ret = 0 /\ UNCHANGED <<inst, heap>>)]_vars
    /\ <>(ra.pc = "done")

\* C9: with a non-empty separator and keep_empty = 1, rs_sv_split delivers, in
\* order, (number of non-overlapping separator occurrences + 1) tokens, each a
\* slice inside the input, and the tokens joined with the separator are the input.
C9_SplitKeepEmpty ==
    (sp.pc = "done" /\ sp.keep /\ Len(sp.sep) > 0) =>
        /\ Len(sp.toks) = CountOcc(sp.s, sp.sep, 0) + 1
        /\ \A k \in 1..Len(sp.toks) :
              sp.toks[k].off >= 0 /\ sp.toks[k].len >= 0
              /\ sp.toks[k].off + sp.toks[k].len <= Len(sp.s)
        /\ \A k \in 1..(Len(sp.toks) - 1) :
              sp.toks[k].off + sp.toks[k].len <= sp.toks[k + 1].off
        /\ Join(sp.s, sp.toks, sp.sep, 1) = sp.s

\* a separator at the very end of the input: "a,,b," on "," gives 4 tokens, the
\* last one empty
C9_Witness ==
    /\ sp.pc = "done" /\ sp.keep
    /\ sp.s = <<2, 1, 1, 2, 1>> /\ sp.sep = <<1>>
    /\ Len(sp.toks) = 4 /\ sp.toks[4] = Tok(5, 0)

\* C10: the tokens delivered with keep_empty = 0 are the non-empty tokens
\* delivered with keep_empty = 1, in the same order; with an empty separator the
\* whole input is delivered once if it is non-empty or keep_empty is set, and
\* nothing otherwise.
C10_SplitDropEmpty ==
    /\ (sp.pc = "done" /\ ~sp.keep) =>
          /\ sp.toks = SelectSeq(sp.kept, NonEmptyTok)
          /\ \A k \in 1..Len(sp.toks) : sp.toks[k].len > 0
    /\ (sp.pc = "done" /\ Len(sp.sep) = 0) =>
          sp.toks = IF Len(sp.s) > 0 \/ sp.keep THEN <<Tok(0, Len(sp.s))>> ELSE <<>>

\* leading, doubled and trailing separators: ",a,," without the empty tokens
C10_Witness ==
    /\ sp.pc = "done" /\ ~sp.keep
    /\ sp.s = <<1, 2, 1, 1>> /\ sp.sep = <<1>>
    /\ Len(sp.kept) = 4 /\ sp.toks = <<Tok(1, 1)>>

\* the content neither begins nor ends with a byte of unsigned value <= 0x20
NoBlankEnds(c) == c = <<>> \/ (CharCode(c[1]) > 32 /\ CharCode(c[Len(c)]) > 32)

\* C11: trim_left, trim_right and trim applied a second time leave the content
\* and the length the first application left (empty, all-blank, bytes above 0x7F
\* included), and after a trim the content neither begins nor ends with a byte
\* whose unsigned value is at most 0x20.
C11_TrimIdempotent ==
    /\ (lc.pc = "twice" /\ lc.ret = 0 /\ fault = "none") =>
          Content(Now, A) = lc.once /\ inst[A].len = Len(lc.once)
    /\ (lc.pc = "called" /\ lc.m.op = "trim" /\ lc.ret = 0 /\ fault = "none") =>
          NoBlankEnds(Content(Now, A))

\* the same when no allocation failed during the calls
C11_TrimIdempotentNoFailure ==
    /\ (lc.pc = "twice" /\ lc.fails = 0 /\ fault = "none") =>
          /\ Content(Now, A) = lc.once /\ inst[A].len = Len(lc.once)
          /\ Content(Now, A) = Expected(lc.old, lc.m)
    /\ (lc.pc = "called" /\ lc.m.op = "trim" /\ lc.fails = 0 /\ fault = "none") =>
          NoBlankEnds(Content(Now, A))

\* the capacity of variable s in world w: T inline, the block's capacity on the heap
CapOf(w, s) ==
    IF w.inst[s].rep = "heap" THEN w.heap[w.inst[s].blk].cap ELSE RS_SSO_CAP

\* what rs_string_reserve_ex(s, need) leaves when it returns 0
ReserveKeeps(s, need, r) ==
    /\ CapOf(r, s) >= CapOf(Now, s)
    /\ CapOf(r, s) >= need /\ CapOf(r, s) >= inst[s].len
    /\ rs_string_cap(r.inst[s]) = CapOf(r, s)
    /\ r.inst[s].len = inst[s].len
    /\ Content(r, s) = Content(Now, s)

ByRelease(s) ==
    \/ inst'[s] = InitInst
    \/ \E src \in Inst \ {s} :
          inst[src].rep = "sso" /\ inst'[s] = inst[src] /\ inst'[src] = inst[src]

\* C13: an instance in heap representation stays in heap representation through
\* every mutation (assign, clear, erase, trim, replace, insert, append, reserve,
\* the COW clone), also when its length drops to T or below; only a release takes
\* it off the heap, and rs_string_free leaves it empty and inline.
C13_PromotionOneWay ==
    /\ [][\A s \in Inst : (inst[s].rep = "heap" /\ inst'[s].rep # "heap") => ByRelease(s)]_vars
    /\ [](fault = "none" =>
            \A s \in Inst : inst[s].rep = "heap" =>
                /\ rs_string_free(Now, s).inst[s] = InitInst
                /\ rs_string_assign(Now, s, <<>>).inst[s].rep = "heap"
                /\ rs_string_erase(Now, s, 0, inst[s].len).inst[s].rep = "heap")

\* two variables share the block of a two-byte string: erased to length 0 <= T,
\* variable 1 is on the heap still, in the clone; cleared, so is variable 2
C13_Witness ==
    /\ fault = "none" /\ inst[1].rep = "heap" /\ inst[2] = inst[1] /\ inst[1].len = 2
    /\ \E r \in {rs_string_erase(Now, 1, 0, 2)} :
          /\ r.ret = 0 /\ r.inst[1].rep = "heap" /\ r.inst[1].len = 0
          /\ r.inst[1].blk # inst[1].blk
    /\ \E r \in {rs_string_assign(Now, 2, <<>>)} :
          r.ret = 0 /\ r.inst[2].rep = "heap" /\ r.inst[2].len = 0

\* the smallest index i >= from at which what lies in c, or the sentinel
RefFind(c, what, from) ==
    IF what = <<>> THEN (IF from <= Len(c) THEN from ELSE NPOS)
    ELSE IF \E i \in from..(Len(c) - Len(what)) : StartsAt(c, i, what)
    THEN CHOOSE i \in from..(Len(c) - Len(what)) :
            /\ StartsAt(c, i, what)
            /\ \A j \in from..(i - 1) : ~StartsAt(c, j, what)
    ELSE NPOS

\* C14: for every string, every needle and every start index from of the whole
\* range of size_t (from > length, and from so large that from + needle.length
\* wraps around, included), find compares no bytes outside the string and returns
\* the smallest i >= from with i + needle.length <= length at which the needle
\* matches, the sentinel when there is none; for an empty needle it returns from
\* when from <= length and the sentinel otherwise.
C14_FindFirstMatch ==
    rd.op = "find" =>
        /\ fault = "none" /\ ~rd.oob
        /\ rd.pc = "done" => rd.ret = RefFind(rd.old, rd.what, rd.pos)

\* the same for the start indices for which from + needle.length does not wrap
C14_FindFirstMatchNoWrap ==
    (rd.op = "find" /\ rd.pos + Len(rd.what) < SizeMod) =>
        /\ fault = "none" /\ ~rd.oob
        /\ rd.pc = "done" => rd.ret = RefFind(rd.old, rd.what, rd.pos)

\* C15: erase(pos, n) with pos <= length removes exactly min(n, length - pos)
\* bytes at pos for every n of the whole range of size_t (n = SIZE_MAX, where
\* pos + n wraps around, included) and keeps the bytes before and after in order;
\* with pos > length it changes nothing; substr(pos, n) clamps in the same way.
C15_EraseClamps ==
    /\ rd.op = "erase" =>
          /\ fault = "none" /\ ~rd.oob
          /\ (rd.pc = "done" /\ rd.ret = 0) =>
                /\ Content(Now, A) = RefErase(rd.old, rd.pos, rd.n)
                /\ inst[A].len = Len(rd.old) - (IF rd.pos > Len(rd.old) THEN 0
                                                ELSE Least(rd.n, Len(rd.old) - rd.pos))
    /\ (rd.op = "substr" /\ rd.pc = "done") =>
          /\ rd.sv.off = Least(rd.pos, Len(rd.old))
          /\ rd.sv.len = Least(rd.n, Len(rd.old) - rd.sv.off)

\* the same for the counts for which pos + n does not wrap
C15_EraseClampsNoWrap ==
    /\ (rd.op = "erase" /\ rd.pos + rd.n < SizeMod) =>
          /\ fault = "none" /\ ~rd.oob
          /\ (rd.pc = "done" /\ rd.ret = 0) =>
                /\ Content(Now, A) = RefErase(rd.old, rd.pos, rd.n)
                /\ inst[A].len = Len(Content(Now, A))
    /\ (rd.op = "substr" /\ rd.pc = "done" /\ Least(rd.pos, Len(rd.old)) + rd.n < SizeMod) =>
          /\ rd.sv.off = Least(rd.pos, Len(rd.old))
          /\ rd.sv.len = Least(rd.n, Len(rd.old) - rd.sv.off)

\* C16: when an allocation fails inside replace_first or replace_all the call
\* reports a failure and the instance keeps its original content and length; the
\* call never returns success, or a replacement count, with a content that is
\* neither the original nor the correctly replaced text.
C16_ReplaceFailureSurfaced ==
    (/\ lc.pc = "called" /\ lc.m.op \in {"replace_first", "replace_all"}
     /\ fault = "none") =>
        /\ lc.fails > 0 =>
              lc.ret < 0 /\ Content(Now, A) = lc.old /\ inst[A].len = lc.oldlen
        /\ lc.ret >= 0 => Content(Now, A) \in {lc.old, Expected(lc.old, lc.m)}

\* after the step variable t points at the block it pointed at, which is as it was
KeepsBlock(t) ==
    /\ inst'[t].rep = "heap" /\ inst'[t].len = inst[t].len /\ inst'[t].cap = inst[t].cap
    /\ heap'[inst'[t].blk].st = "live"
    /\ heap'[inst'[t].blk].cap = heap[inst[t].blk].cap
    /\ heap'[inst'[t].blk].bytes = heap[inst[t].blk].bytes

C18_FreedExactlyOnce ==
    th # NoThreads =>
        /\ fault = "none"
        /\ \A b \in Blk :
              (heap[b].st = "live" /\ heap[b].rc = 0) =>
                  \E t \in Thread : th[t].pc = "free" /\ inst[t].blk = b
        /\ \A t \in Thread : inst[t].rep = "heap" => heap[inst[t].blk].st = "live"
        /\ (\A t \in Thread : th[t].pc = "done") =>
              \A b \in Blk : heap[b].st = "live" => Refs(inst, b) # {}

\* what rs_string_from_val(c) is to leave in variable s: r is the world it left
FromValueOk(r, s, c) ==
    IF Len(c) <= RS_SSO_CAP
    THEN r.inst[s].rep = "sso" /\ r.inst[s].len = Len(c) /\ Content(r, s) = c
    ELSE /\ r.inst[s].rep = "heap" /\ r.inst[s].len = Len(c) /\ Content(r, s) = c
         /\ r.heap[r.inst[s].blk].st = "live" /\ r.heap[r.inst[s].blk].rc = 1
         /\ r.heap[r.inst[s].blk].cap >= Len(c) /\ r.inst[s].cap = r.heap[r.inst[s].blk].cap

\* C19: rs_string_from_val with a content of length <= T yields an inline
\* instance holding it, with a longer content a heap instance whose block has
\* refcount 1 and capacity >= the length; when a.m returns NULL the call reports
\* a failure and writes neither the header nor the bytes of a block it did not
\* obtain.
C19_FromValue ==
    /\ fault # "null_deref"
    /\ \A s \in Inst : inst[s].rep # "stale"
    /\ fault = "none" =>
          \A s \in Inst : inst[s] = InitInst =>
              \A c \in Vals, o \in Orc10, elide \in BOOLEAN :
                  \A r \in {rs_string_from_val(World(o), s, c, elide)} :
                      /\ r.fault = "none"
                      /\ r.fails = 0 => FromValueOk(r, s, c)
                      /\ r.fails > 0 => r.ret # 0 /\ r.heap = heap

\* the same when a.m returns a block and the struct is built in the caller's
\* variable
C19_FromValueWhenAllocated ==
    fault = "none" =>
        \A s \in Inst : inst[s] = InitInst =>
            \A c \in Vals :
                \A r \in {rs_string_from_val(World(NoOracle), s, c, TRUE)} :
                    FreeIds(Now) # {} => r.fault = "none" /\ FromValueOk(r, s, c)

TypeOK == fault \in {"none", "dangling", "use_after_free", "double_free", "overflow",
                     "null_deref", "hang", "out_of_bounds"}

====
